---------------------------- MODULE Spec2Model ----------------------------
(***************************************************************************)
(* A model of netbox/scripts/netbox_init.py: the bootstrap of a NetBox     *)
(* deployment.  main() runs, in this order: the custom plugin phase        *)
(* (installation, discovery, registration in plugins.py), the selection of *)
(* a database backup, the restore of that backup, the reconciliation of a  *)
(* fixed catalog of resources through the NetBox API, the netbox           *)
(* initializers and the device type library import.                        *)
(*                                                                         *)
(* The program is sequential: pc is the position of main(), each action is *)
(* one block of main(), and the outcome of every external command and API  *)
(* call is chosen by the environment.                                      *)
(***************************************************************************)
EXTENDS Integers, Sequences, FiniteSets, TLC

VARIABLES
    pc,                     \* position of main()
    run,                    \* number of the current invocation of the program
    args,                   \* the parsed command line (lines 174-360)
    fs,                     \* what os.path.isdir / os.path.isfile answer
    preloadDir,             \* the entries of args.preloadDir
    venv,                   \* the packages pip lists as installed, with versions
    packageDirs,            \* the package directories of args.customPluginsDir
    pluginsFile,            \* the text of plugins.py, a sequence of lines
    pluginInits,            \* the plugin names the installed __init__.py files declare
    recordsOrdered,         \* the API client's records can be compared with <
    objectTypes,            \* the object types the NetBox API knows
    mayFail,                \* the commands and calls of the environment can fail
    packagesInstalled,      \* main's local packagesInstalled
    dirsTodo,               \* the package directories still to handle
    installedOrUpdatedPlugins, \* main's local installedOrUpdatedPlugins
    installLog,             \* the calls of InstallPackageDirIfNeeded so far
    code,                   \* main's local code: the text read from plugins.py
    pluginNames,            \* main's local pluginNames
    pluginsListFound,       \* main's local pluginsListFound (line 461)
    g_pluginsListFound,     \* the module global bound by "global" (line 469)
    preloadDatabaseFile,    \* main's local preloadDatabaseFile
    preloadDatabaseSuccess, \* main's local preloadDatabaseSuccess
    cmdLog,                 \* the external commands run so far, in order
    drained,                \* the netbox services are stopped
    remote,                 \* the resources the NetBox API holds, per kind
    maps,                   \* main's result dicts: groups, manufacturers, ...
    preExisting,            \* main's dicts of the first list call, per kind
    allObjectTypeNames,     \* main's local allObjectTypeNames
    kind,                   \* the resource kind the reconciler is working on
    todo,                   \* the names of that kind still to create
    prefixes,               \* the prefixes the NetBox API holds
    nextId,                 \* the id the API gives the next created resource
    apiLog,                 \* the API calls issued so far, in order
    failures,               \* failed external calls so far
    errLog,                 \* the steps of this run whose command or file operation failed
    reconcilerRan,          \* the block of line 700 was entered in this run
    snap                    \* the state each finished run left behind

env ==
    <<args, fs, preloadDir, venv, packageDirs, pluginInits, recordsOrdered, objectTypes,
      mayFail>>
installState == <<packagesInstalled, dirsTodo, installedOrUpdatedPlugins, installLog>>
pluginState ==
    <<installState, pluginsFile, code, pluginNames, pluginsListFound, g_pluginsListFound>>
restoreState == <<preloadDatabaseFile, preloadDatabaseSuccess, drained>>
apiState ==
    <<remote, prefixes, maps, preExisting, allObjectTypeNames, kind, todo, nextId, apiLog,
      reconcilerRan>>

vars == <<pc, run, env, pluginState, restoreState, apiState, cmdLog, failures, errLog, snap>>

-----------------------------------------------------------------------------
(* Bounds of the model *)

MaxFileLen == 2      \* lines of plugins.py
MaxListLen == 2      \* entries of a PLUGINS list in plugins.py
MaxDiscovered == 2   \* plugin names found by the scan, with repetitions
MaxMtime == 2        \* modification times of the files of the preload directory
MaxFailures == 1     \* failing external calls in one behaviour
MaxRuns == 2         \* invocations of the program in a row
MaxPackageDirs == 1  \* package directories of the custom plugins directory
MaxPrefixes == 2     \* rows of the prefix table

-----------------------------------------------------------------------------
(* Helpers on sequences *)

Range(s) == {s[i] : i \in 1..Len(s)}

BoundedSeq(S, n) == UNION {[1..m -> S] : m \in 0..n}

\* the sequences that list every element of the set S exactly once
Orderings(S) == {s \in [1..Cardinality(S) -> S] : Range(s) = S}

\* number of places of s holding x
Count(s, x) == Cardinality({i \in 1..Len(s) : s[i] = x})


-----------------------------------------------------------------------------
(* plugins.py as text and as a syntax tree                                  *)
(*                                                                          *)
(* A line of the file is a comment, an expression statement, an assignment  *)
(* whose first target is the name in "target", or text that does not parse. *)
(* "canon" tells whether the line is written the way ast.unparse writes it. *)
(* A node of the tree is a statement without its layout: ast.parse keeps    *)
(* neither comments nor formatting.                                         *)

PluginNameSet == {"existing_plugin", "new_plugin"}

Line(k, target, isList, elts, canon) ==
    [k |-> k, target |-> target, isList |-> isList, elts |-> elts, canon |-> canon]

Node(k, target, isList, elts) ==
    [k |-> k, target |-> target, isList |-> isList, elts |-> elts]

CommentLine == Line("comment", "", FALSE, <<>>, TRUE)
BadLine == Line("bad", "", FALSE, <<>>, FALSE)

\* ast.parse raises SyntaxError on this text
SyntaxError(text) == \E i \in 1..Len(text) : text[i].k = "bad"

IsStatement(line) == line.k # "comment"

LineNode(line) == Node(line.k, line.target, line.isList, line.elts)

\* ast.parse(text): the statements of the text, in order
ast_parse(text) ==
    LET stmts == SelectSeq(text, IsStatement)
    IN  [i \in 1..Len(stmts) |-> LineNode(stmts[i])]

\* ast.unparse(tree): one line per statement, in ast.unparse's own layout
ast_unparse(tree) ==
    [i \in 1..Len(tree) |->
        Line(tree[i].k, tree[i].target, tree[i].isList, tree[i].elts, TRUE)]

\* node.targets[0] is the Name PLUGINS
IsPluginsAssign(node) == node.k = "assign" /\ node.target = "PLUGINS"

\* the loop of lines 477-479: the names missing from the list, appended in order
AppendMissing(elts, names) ==
    LET existingPlugins == Range(elts)
        NotExisting(plugin) == plugin \notin existingPlugins
    IN  elts \o SelectSeq(names, NotExisting)

\* visit_Assign without its test of the target's name
visit_Assign_AnyTarget(node, names) ==
    IF node.k = "assign" /\ node.isList
    THEN [node EXCEPT !.elts = AppendMissing(node.elts, names)]
    ELSE node

\* PluginListModifier.visit_Assign
visit_Assign(node, names) ==
    IF IsPluginsAssign(node) /\ node.isList
    THEN [node EXCEPT !.elts = AppendMissing(node.elts, names)]
    ELSE node

\* PluginListModifier().visit(tree): every statement is visited in place
visit(tree, names) == [i \in 1..Len(tree) |-> visit_Assign(tree[i], names)]

\* visit_Assign binds the module global pluginsListFound
GlobalFoundAfterVisit(found, tree) ==
    found \/ \E i \in 1..Len(tree) : IsPluginsAssign(tree[i])

\* main's local pluginsListFound after the visit: visit_Assign declares the
\* name global, so its assignment never reaches the local of main
LocalFoundAfterVisit(found, tree) == found

\* the statement appended by lines 488-493
NewPluginsAssign(names) == Node("assign", "PLUGINS", TRUE, names)

\* lines 461-496: the text written back for the text read
modifiedCode(text, names) ==
    LET tree == ast_parse(text)
        modifiedTree == visit(tree, names)
        found == LocalFoundAfterVisit(FALSE, tree)
    IN  ast_unparse(IF found THEN modifiedTree
                    ELSE Append(modifiedTree, NewPluginsAssign(names)))

-----------------------------------------------------------------------------
(* The backup files                                                         *)
(*                                                                          *)
(* A path is a stem and an extension.  An entry of the preload directory    *)
(* has a path, a modification time, and is a regular file or a directory.   *)

NoFile == [stem |-> "", ext |-> ""]             \* the path ''
ExplicitFile == [stem |-> "explicit", ext |-> ".gz"]

Path(e) == [stem |-> e.stem, ext |-> e.ext]

\* glob.glob(os.path.join(args.preloadDir, '*.gz')) matches the entry
GlobGz(e) == e.ext \in {".gz", ".media.tar.gz"}

\* x.endswith('.media.tar.gz')
EndsWithMedia(e) == e.ext = ".media.tar.gz"

\* os.path.isfile
isfile(f) ==
    IF f = NoFile THEN FALSE
    ELSE IF f.stem = "explicit"
         THEN IF f.ext = ".gz" THEN fs.preloadBackupFile ELSE fs.explicitMedia
         ELSE fs.preloadDir /\ \E e \in preloadDir : Path(e) = f /\ e.isfile

\* line 508 without its test of the requested file
SearchPreloadDir_Always == fs.preloadDir

\* line 508
SearchPreloadDir == ~isfile(args.preloadBackupFile) /\ fs.preloadDir

\* lines 509-513
preloadFiles ==
    {e \in preloadDir : GlobGz(e) /\ e.isfile /\ ~EndsWithMedia(e)}

\* preloadFiles.sort(key=getmtime): ascending, files of equal time in glob's order
SortedByMtime(S) ==
    {s \in Orderings(S) : \A i, j \in 1..Len(s) : i < j => s[i].mtime <= s[j].mtime}

\* next(iter(preloadFiles), '')
FirstOf(sorted) == IF sorted = <<>> THEN NoFile ELSE Path(sorted[1])

\* lines 684-685: os.path.splitext(f)[0] + ".media.tar.gz"
mediaFileName(f) == [stem |-> f.stem, ext |-> ".media.tar.gz"]

\* line 700 without its test of preloadDatabaseSuccess
PopulateViaApi_IgnoresSuccess(success, backupFile) == backupFile = NoFile

\* line 700 with its first "not" left out
PopulateViaApi_NotDropped(success, backupFile) == success /\ backupFile = NoFile

\* line 700 without its test of args.preloadBackupFile
PopulateViaApi_IgnoresRequest(success, backupFile) == ~success

\* line 700 and line 951
PopulateViaApi(success, backupFile) == ~success /\ backupFile = NoFile

-----------------------------------------------------------------------------
(* The resources of the NetBox API                                          *)
(*                                                                          *)
(* A resource is an id, its natural key (name or model) and the ids it      *)
(* refers to: the manufacturer of a device type, the groups of a            *)
(* permission.  A dict {x.name: x for x in ...all()} is the set of the      *)
(* resources it holds, one per key.                                         *)

Kinds == {"groups", "permissions", "manufacturers", "roles", "deviceTypes", "sites"}

\* the device types block moved before the manufacturers block
KindOrder_DeviceTypesFirst ==
    <<"groups", "permissions", "deviceTypes", "roles", "manufacturers", "sites">>

\* the order of the blocks of lines 729-907
KindOrder == <<"groups", "permissions", "manufacturers", "roles", "deviceTypes", "sites">>

GroupNames == {"administrator", "standard"}

\* f'{groupName}_permission'
PermissionName(g) ==
    IF g = "administrator" THEN "administrator_permission" ELSE "standard_permission"

EmptyMaps == [k \in Kinds |-> {}]

\* a dict in which no key is ever found
Keys_OfNothing(map) == {}

Keys(map) == {r.name : r \in map}

\* {x.name: x for x in listed}: a later resource replaces an earlier one of its name
DictByName(listed) ==
    {r \in listed : \A q \in listed : q.name = r.name => q.id <= r.id}

\* the desired names of a kind, in the order the code walks them
\* (lines 730-733, 752-787, 823, 845, 869, 893)
Desired(k) ==
    CASE k = "groups" -> <<args.staffGroupName, args.defaultGroupName>>
      [] k = "permissions" ->
            IF args.staffGroupName = args.defaultGroupName
            THEN <<PermissionName(args.staffGroupName)>>
            ELSE <<PermissionName(args.staffGroupName), PermissionName(args.defaultGroupName)>>
      [] k = "manufacturers" -> args.manufacturers
      [] k = "roles" -> args.roles
      [] k = "deviceTypes" -> args.deviceTypes
      [] k = "sites" -> args.netboxSites

\* the comprehension without its filter
Absent_Unfiltered(desired, existing) == desired

\* [x for x in desired if x not in preExisting]
Absent(desired, existing) ==
    LET NotThere(x) == x \notin Keys(existing)
    IN  SelectSeq(desired, NotThere)

\* the 'exclude_objects' entry of DEFAULT_PERMISSIONS (lines 763, 775-785);
\* with one name for both groups the second entry replaces the first
exclude_objects(p) ==
    IF p = PermissionName(args.defaultGroupName)
    THEN {"admin.logentry", "auth.group", "auth.permission", "auth.user",
          "users.admingroup", "users.adminuser", "users.objectpermission",
          "users.token", "users.userconfig"}
    ELSE {}

\* the comprehension of lines 803-805 without its filter
object_types_Unfiltered(all, excluded) == all

\* lines 803-805: [ct for ct in allObjectTypeNames if ct not in exclude_objects]
object_types(all, excluded) == {ct \in all : ct \notin excluded}

\* the 'groups' entry of DEFAULT_PERMISSIONS (lines 756, 768)
PermissionGroup(p) ==
    IF p = PermissionName(args.defaultGroupName) THEN args.defaultGroupName
    ELSE args.staffGroupName

\* min_hash_value_by_value(x), lines 41-45, for a dict of API records: None
\* (the empty set here) for an empty dict, the only value of a dict of one,
\* and for a larger dict whatever the order of the records makes the first
MinValueChoices(map) == IF map = {} THEN {{}} ELSE {{r.id} : r \in map}

\* sorted() compares the values of a dict of two or more
SortCompares(map) == Cardinality(map) >= 2

\* the block that follows the block of kind k
PcAfter(k) == IF k = "sites" THEN "prefixes" ELSE "prefetch"

KindAfter(k) ==
    IF k = "sites" THEN ""
    ELSE KindOrder[(CHOOSE i \in 1..Len(KindOrder) : KindOrder[i] = k) + 1]

\* the kind whose resources a payload of kind k refers to
RefKind(k) == IF k = "deviceTypes" THEN "manufacturers" ELSE "groups"

\* one API call, as the server sees it: refOk tells whether every resource
\* the payload refers to existed when the call was made
Call(op, k, key, ref, ok) ==
    [op |-> op, kind |-> k, key |-> key, ref |-> ref,
     refOk |-> ref \subseteq {r.id : r \in remote[RefKind(k)]}, ok |-> ok,
     error |-> IF ok THEN "" ELSE "Exception", object_types |-> {}]

-----------------------------------------------------------------------------
(* External commands: the environment chooses each exit status *)

Errs == IF mayFail /\ failures < MaxFailures THEN {0, 1} ELSE {0}

Outcomes(bad) == IF mayFail /\ failures < MaxFailures THEN {"ok"} \cup bad ELSE {"ok"}

\* the outcomes of an API call: the services stopped at lines 524-532 answer
\* no call until the restart step of lines 623-631 has started them again
ApiOutcomes(bad) == IF drained THEN {"Exception"} ELSE Outcomes(bad)

\* what a call adds to the failures the environment may still choose
Charged(out) == IF out = "ok" \/ drained THEN 0 ELSE 1

Ran(cmds, failed) ==
    /\ cmdLog' = cmdLog \o cmds
    /\ failures' = failures + (IF failed THEN 1 ELSE 0)
    /\ errLog' = IF failed THEN Append(errLog, pc) ELSE errLog

-----------------------------------------------------------------------------
(* The packages                                                             *)
(*                                                                          *)
(* A version is the sequence of the numbers of its release, 1.10 being      *)
(* <<1, 10>>.  A package map gives every package name its version, or       *)
(* NoVersion for a package that is not in the map.                          *)

PackageNames == {"foo", "bar"}

NoVersion == <<>>

Versions == {<<1>>, <<1, 0>>, <<1, 9>>, <<1, 10>>}

PackageMaps == [PackageNames -> Versions \cup {NoVersion}]

NoPackages == [n \in PackageNames |-> NoVersion]

\* the i-th number of a release, a missing one counting as 0
Segment(v, i) == IF i <= Len(v) THEN v[i] ELSE 0

\* where a number stands among the numbers written in decimal and ordered
\* as text: "1" < "10" < "2" < "9"
TextRank(n) == IF n < 10 THEN 100 * n ELSE 100 * (n \div 10) + (n % 10) + 1

\* new_version > installed version with the versions compared as text
VersionGreater_AsText(a, b) ==
    \E i \in 1..Len(a) :
        /\ \A j \in 1..(i - 1) : j <= Len(b) /\ a[j] = b[j]
        /\ i > Len(b) \/ TextRank(a[i]) > TextRank(b[i])

\* Version(a) > Version(b), line 140: the releases are compared number by
\* number, the shorter one padded with zeros
VersionGreater(a, b) ==
    \E i \in 1..(IF Len(a) > Len(b) THEN Len(a) ELSE Len(b)) :
        /\ \A j \in 1..(i - 1) : Segment(a, j) = Segment(b, j)
        /\ Segment(a, i) > Segment(b, i)

\* what the dry run of a package directory leaves: its exit status, whether
\* the report file is there, and the 'install' entries of the report
DryRun(err, reportIsFile, install) ==
    [err |-> err, isfile |-> reportIsFile, install |-> install]

\* line 126
HasReport(dryRun) == dryRun.err = 0 /\ dryRun.isfile

\* lines 135-142
AnyNewOrGreater(wouldInstallInfo, preinstalledPackagesDict) ==
    \E package_name \in PackageNames :
        /\ wouldInstallInfo[package_name] # NoVersion
        /\ \/ preinstalledPackagesDict[package_name] = NoVersion
           \/ VersionGreater(wouldInstallInfo[package_name],
                             preinstalledPackagesDict[package_name])

\* lines 107-144
pluginNeedsInstall(dryRun, preinstalledPackagesDict) ==
    IF HasReport(dryRun)
    THEN AnyNewOrGreater(dryRun.install, preinstalledPackagesDict)
    ELSE TRUE

\* GetInstalledPackages, lines 71-93: the empty dict when pip list fails
GetInstalledPackages(err) == IF err = 0 THEN venv ELSE NoPackages

-----------------------------------------------------------------------------
(* The custom plugin phase, lines 378-502 *)

\* line 379
\* lines 379-403: the requirements come before the plugins
CheckPluginDirs ==
    /\ pc = "plugins"
    /\ IF fs.customPluginsDir /\ fs.pluginsPy
       THEN \E err \in Errs :
            /\ Ran(<<"pip list">>, err # 0)
            /\ packagesInstalled' = GetInstalledPackages(err)
            /\ dirsTodo' = packageDirs
            /\ installedOrUpdatedPlugins' = <<>>
            /\ pc' = "install"
       ELSE /\ pc' = "select"
            /\ UNCHANGED <<packagesInstalled, dirsTodo, installedOrUpdatedPlugins,
                           cmdLog, failures, errLog>>
    /\ UNCHANGED <<installLog, pluginsFile, code, pluginNames, pluginsListFound,
                   g_pluginsListFound>>
    /\ UNCHANGED <<run, env, restoreState, apiState, snap>>

\* one call of InstallPackageDirIfNeeded (lines 96-166) from the loops of
\* lines 391-395 and 404-407
InstallPackageDir ==
    /\ pc = "install"
    /\ dirsTodo # <<>>
    /\ LET packageDir == Head(dirsTodo)
           needed == pluginNeedsInstall(packageDir.dryRun, packagesInstalled)
       IN  \E err \in (IF needed THEN Errs ELSE {0}) :
            LET installResult == needed /\ err = 0
            IN  /\ Ran(IF needed THEN <<"pip install --dry-run", "pip install">>
                       ELSE <<"pip install --dry-run">>, err # 0)
                /\ installLog' = Append(installLog,
                       [dryRun |-> packageDir.dryRun, preinstalled |-> packagesInstalled,
                        installed |-> needed, installResult |-> installResult])
                /\ installedOrUpdatedPlugins' =
                       IF installResult /\ ~packageDir.dependency
                       THEN Append(installedOrUpdatedPlugins, packageDir)
                       ELSE installedOrUpdatedPlugins
    /\ dirsTodo' = Tail(dirsTodo)
    /\ pc' = "install"
    /\ UNCHANGED <<packagesInstalled, pluginsFile, code, pluginNames, pluginsListFound,
                   g_pluginsListFound>>
    /\ UNCHANGED <<run, env, restoreState, apiState, snap>>

\* lines 409-414: the installed packages are listed again if a plugin was
\* installed or updated
AfterInstall ==
    /\ pc = "install"
    /\ dirsTodo = <<>>
    /\ IF installedOrUpdatedPlugins # <<>>
       THEN \E err \in Errs :
            /\ Ran(<<"pip list">>, err # 0)
            /\ packagesInstalled' = GetInstalledPackages(err)
       ELSE UNCHANGED <<packagesInstalled, cmdLog, failures, errLog>>
    /\ pc' = "discover"
    /\ UNCHANGED <<dirsTodo, installedOrUpdatedPlugins, installLog, pluginsFile, code,
                   pluginNames, pluginsListFound, g_pluginsListFound>>
    /\ UNCHANGED <<run, env, restoreState, apiState, snap>>

\* lines 416-453: the names declared by the plugin classes found by the scan
DiscoverPlugins ==
    /\ pc = "discover"
    /\ pluginNames' = pluginInits
    /\ pc' = "register"
    /\ UNCHANGED <<installState, pluginsFile, code, pluginsListFound, g_pluginsListFound>>
    /\ UNCHANGED <<run, env, restoreState, apiState, cmdLog, failures, errLog, snap>>

\* lines 455-500: list(set(pluginNames)) comes in any order
RegisterPlugins ==
    /\ pc = "register"
    /\ IF pluginNames = <<>>
       THEN /\ pc' = "select"
            /\ UNCHANGED pluginState
       ELSE \E names \in Orderings(Range(pluginNames)) :
            /\ pluginNames' = names
            /\ code' = pluginsFile
            /\ IF SyntaxError(pluginsFile)
               THEN /\ pc' = "crashed"
                    /\ pluginsListFound' = FALSE
                    /\ UNCHANGED <<pluginsFile, g_pluginsListFound>>
               ELSE /\ pc' = "select"
                    /\ pluginsListFound' = LocalFoundAfterVisit(FALSE, ast_parse(pluginsFile))
                    /\ g_pluginsListFound' =
                           GlobalFoundAfterVisit(g_pluginsListFound, ast_parse(pluginsFile))
                    /\ pluginsFile' = modifiedCode(pluginsFile, names)
    /\ UNCHANGED installState
    /\ UNCHANGED <<run, env, restoreState, apiState, cmdLog, failures, errLog, snap>>

-----------------------------------------------------------------------------
(* The choice of the backup, lines 504-517 *)

SelectBackup ==
    /\ pc = "select"
    /\ IF SearchPreloadDir
       THEN \E sorted \in SortedByMtime(preloadFiles) :
                preloadDatabaseFile' = FirstOf(sorted)
       ELSE preloadDatabaseFile' = args.preloadBackupFile
    /\ preloadDatabaseSuccess' = FALSE
    /\ pc' = IF isfile(preloadDatabaseFile') THEN "stop" ELSE "gate"
    /\ UNCHANGED <<run, env, pluginState, drained, apiState, cmdLog, failures, errLog, snap>>

-----------------------------------------------------------------------------
(* The restore, lines 517-696.  An exception leaves the try block: the      *)
(* handler of line 695 logs it and main goes on at line 698.                *)

\* the steps that raise on a bad result, with line 559 left out
Fatal_LoadOnly(step) == step = "load"

\* the steps that raise on a bad result (lines 558-559, 588-592); the other
\* steps log it and go on
Fatal(step) == step \in {"createdb", "load"}

\* the handler of lines 695-696 turned into one that resets the flag
ExceptRestore_Resets(success) == FALSE

\* the handler of lines 695-696: it logs the exception and leaves
\* preloadDatabaseSuccess as it is
ExceptRestore(success) == success

\* lines 524-532
RestoreStop ==
    /\ pc = "stop"
    /\ \E err \in Errs :
        /\ Ran(<<"stop">>, err # 0)
        /\ \E d \in (IF err = 0 THEN {TRUE} ELSE BOOLEAN) : drained' = (drained \/ d)
    /\ pc' = "dropdb"
    /\ UNCHANGED <<run, env, pluginState, preloadDatabaseFile, preloadDatabaseSuccess,
                   apiState, snap>>

\* lines 534-546
RestoreDropdb ==
    /\ pc = "dropdb"
    /\ \E err \in Errs : Ran(<<"dropdb">>, err # 0)
    /\ pc' = "createdb"
    /\ UNCHANGED <<run, env, pluginState, restoreState, apiState, snap>>

\* lines 548-559
RestoreCreatedb ==
    /\ pc = "createdb"
    /\ \E err \in Errs :
        /\ Ran(<<"createdb">>, err # 0)
        /\ pc' = IF err # 0 /\ Fatal("createdb") THEN "gate" ELSE "grant"
        /\ preloadDatabaseSuccess' =
               IF err # 0 /\ Fatal("createdb") THEN ExceptRestore(preloadDatabaseSuccess)
               ELSE preloadDatabaseSuccess
    /\ UNCHANGED <<run, env, pluginState, preloadDatabaseFile, drained, apiState, snap>>

\* lines 561-573
RestoreGrant ==
    /\ pc = "grant"
    /\ \E err \in Errs : Ran(<<"grant">>, err # 0)
    /\ pc' = "load"
    /\ UNCHANGED <<run, env, pluginState, restoreState, apiState, snap>>

\* lines 575-592: "raise" is an exception opening or reading the backup,
\* "empty" is exit status 0 with no output, "err" a non-zero exit status
RestoreLoad ==
    /\ pc = "load"
    /\ \E out \in Outcomes({"raise", "empty", "err"}) :
        /\ Ran(IF out = "raise" THEN <<>> ELSE <<"load">>, out # "ok")
        /\ preloadDatabaseSuccess' =
               IF out = "ok" THEN TRUE
               ELSE IF out = "raise" \/ Fatal("load") THEN ExceptRestore(preloadDatabaseSuccess)
               ELSE preloadDatabaseSuccess
        /\ pc' = IF out = "ok" \/ (out # "raise" /\ ~Fatal("load")) THEN "fixup" ELSE "gate"
    /\ UNCHANGED <<run, env, pluginState, preloadDatabaseFile, drained, apiState, snap>>

\* the rows of ipam_vrf: the VRF of id i has the name VrfNames[i]
VrfNames == <<"vrf-a", "vrf-b">>

\* the vrf_id of a prefix without a VRF (NULL in the database, None in the API)
NoVrf == 0

\* (SELECT name from ipam_vrf WHERE id = ipam_prefix.vrf_id), line 603
SelectName(vrf_id) == VrfNames[vrf_id]

\* WHERE ((description = '') IS NOT FALSE) AND (vrf_id > 0), line 603: the
\* description of a prefix is never NULL, and NULL > 0 is not true
UpdateWhere(x) == x.description = "" /\ x.vrf_id # NoVrf /\ x.vrf_id > 0

\* the UPDATE statement of line 603 on the rows of ipam_prefix
FixupSql(rows) ==
    {IF UpdateWhere(x) THEN [x EXCEPT !.description = SelectName(x.vrf_id)] ELSE x :
        x \in rows}

\* lines 594-607: the statement is one transaction, a failed one changes nothing
RestoreFixup ==
    /\ pc = "fixup"
    /\ \E err \in Errs :
        /\ Ran(<<"fixup">>, err # 0)
        /\ prefixes' = IF err = 0 THEN FixupSql(prefixes) ELSE prefixes
    /\ pc' = "truncate"
    /\ UNCHANGED <<run, env, pluginState, restoreState, remote, maps, preExisting,
                   allObjectTypeNames, kind, todo, nextId, apiLog, reconcilerRan, snap>>

\* lines 609-621
RestoreTruncate ==
    /\ pc = "truncate"
    /\ \E err \in Errs : Ran(<<"truncate">>, err # 0)
    /\ pc' = "start"
    /\ UNCHANGED <<run, env, pluginState, restoreState, apiState, snap>>

\* lines 623-631
RestoreStart ==
    /\ pc = "start"
    /\ \E err \in Errs :
        /\ Ran(<<"start">>, err # 0)
        /\ \E d \in (IF err = 0 THEN {FALSE} ELSE BOOLEAN) : drained' = (drained /\ d)
    /\ pc' = "migrations"
    /\ UNCHANGED <<run, env, pluginState, preloadDatabaseFile, preloadDatabaseSuccess,
                   apiState, snap>>

\* the operations of lines 643-663
MigrateOperations ==
    <<"migrate", "trace_paths", "remove_stale_contenttypes", "clearsessions", "reindex">>

\* the loop of lines 641-668 turned into one that ends at the first
\* operation that fails
OperationsRun_StopAtFailure(failed) ==
    LET First == {i \in 1..Len(MigrateOperations) :
                     /\ MigrateOperations[i] \in failed
                     /\ \A j \in 1..(i - 1) : MigrateOperations[j] \notin failed}
    IN  IF First = {} THEN MigrateOperations
        ELSE SubSeq(MigrateOperations, 1, CHOOSE i \in First : TRUE)

\* the loop of lines 641-668: a bad result of an operation is logged and the
\* loop goes on with the next operation
OperationsRun(failed) == MigrateOperations

\* the operations the environment may let fail
FailedOperations(out) ==
    IF out = "pending" /\ mayFail
    THEN {F \in SUBSET Range(MigrateOperations) : Cardinality(F) <= MaxFailures - failures}
    ELSE {{}}

\* lines 633-668: "raise" is pushd failing; "pending" is migrate --check
\* leaving a non-zero status, which errLog keeps under the name of the
\* command, as it keeps each operation that fails
RestoreMigrate ==
    /\ pc = "migrations"
    /\ \E out \in {"ok", "pending"} \cup Outcomes({"raise"}) :
       \E failed \in FailedOperations(out) :
        LET operations == IF out = "pending" THEN OperationsRun(failed) ELSE <<>>
            Bad(operation) == operation \in failed
        IN  /\ cmdLog' = cmdLog \o (IF out = "raise" THEN <<>>
                                     ELSE <<"migrate --check">> \o operations)
            /\ errLog' = errLog \o (IF out = "raise" THEN <<pc>>
                                     ELSE IF out = "pending"
                                          THEN <<"migrate --check">> \o SelectSeq(operations, Bad)
                                          ELSE <<>>)
            /\ failures' = failures + (IF out = "raise" THEN 1
                                       ELSE Len(SelectSeq(operations, Bad)))
            /\ pc' = IF out = "raise" THEN "gate" ELSE "superuser"
            /\ preloadDatabaseSuccess' =
                   IF out = "raise" THEN ExceptRestore(preloadDatabaseSuccess)
                   ELSE preloadDatabaseSuccess
    /\ UNCHANGED <<run, env, pluginState, preloadDatabaseFile, drained, apiState, snap>>

\* lines 670-681: "raise" is open() of the bootstrap script failing
RestoreSuperuser ==
    /\ pc = "superuser"
    /\ \E out \in Outcomes({"raise", "err"}) :
        /\ Ran(IF out = "raise" THEN <<>> ELSE <<"superuser">>, out # "ok")
        /\ pc' = IF out = "raise" THEN "gate" ELSE "media"
        /\ preloadDatabaseSuccess' =
               IF out = "raise" THEN ExceptRestore(preloadDatabaseSuccess)
               ELSE preloadDatabaseSuccess
    /\ UNCHANGED <<run, env, pluginState, preloadDatabaseFile, drained, apiState, snap>>

\* line 687 without its test of the destination directory
MediaRestorable_ArchiveOnly(f) == isfile(mediaFileName(f))

\* line 687
MediaRestorable(f) == isfile(mediaFileName(f)) /\ fs.mediaPath

\* lines 683-693: an exception of either step is caught at line 692
RestoreMedia ==
    /\ pc = "media"
    /\ IF MediaRestorable(preloadDatabaseFile)
       THEN \E out \in Outcomes({"clean fails", "extract fails"}) :
                Ran(IF out = "clean fails" THEN <<"RemoveEmptyFolders">>
                    ELSE <<"RemoveEmptyFolders", "extractall">>, out # "ok")
       ELSE UNCHANGED <<cmdLog, failures, errLog>>
    /\ pc' = "gate"
    /\ UNCHANGED <<run, env, pluginState, restoreState, apiState, snap>>

-----------------------------------------------------------------------------
(* The reconciler, lines 698-920 *)

\* lines 698-717
Gate ==
    /\ pc = "gate"
    /\ IF PopulateViaApi(preloadDatabaseSuccess, args.preloadBackupFile)
       THEN /\ reconcilerRan' = TRUE
            /\ maps' = EmptyMaps
            /\ pc' = "connect"
       ELSE /\ pc' = "initializers"
            /\ UNCHANGED <<reconcilerRan, maps>>
    /\ UNCHANGED <<run, env, pluginState, restoreState, remote, prefixes, preExisting,
                   allObjectTypeNames, kind, todo, nextId, apiLog, cmdLog, failures, errLog, snap>>

\* the handler of lines 724-727 turned into one that leaves the loop
AfterProbe_GivesUp(out) == "prefetch"

\* lines 722-727: break after a good answer, sleep and try again after an
\* exception
AfterProbe(out) == IF out = "ok" THEN "prefetch" ELSE "connect"

\* the handlers of the blocks turned into ones that end the reconciler
PcAfterException_EndsPhase(k) == "prefixes"

\* the handlers of lines 748, 814, 836, 860, 884 and 906: the exception is
\* logged and main goes on with the block that follows
PcAfterException(k) == PcAfter(k)

\* the handler of RequestError turned into one that ends the loop
TodoAfter_RequestErrorEnds(out, names) == IF out = "ok" THEN Tail(names) ELSE <<>>

\* the names left to create after a create call: RequestError is caught
\* inside the loop (lines 743, 809, 826, 850, 879, 901), another exception
\* leaves it
TodoAfter(out, names) == IF out = "Exception" THEN <<>> ELSE Tail(names)

\* 'while args.wait' turned into 'while True'
WhileWait_Always(wait) == TRUE

\* line 720: the condition of the loop
WhileWait(wait) == wait

\* the probes logged: of the failed probes of services that are down, which
\* go on without end, the log keeps the first
LogProbe(log, call) ==
    IF drained /\ log # <<>> /\ log[Len(log)] = call THEN log ELSE Append(log, call)

\* lines 719-727: one turn of the loop
WaitConnection ==
    /\ pc = "connect"
    /\ IF WhileWait(args.wait)
       THEN \E out \in ApiOutcomes({"Exception"}) :
            /\ apiLog' = LogProbe(apiLog, Call("probe", "sites", "", {}, out = "ok"))
            /\ failures' = failures + Charged(out)
            /\ pc' = AfterProbe(out)
            /\ kind' = IF pc' = "prefetch" THEN "groups" ELSE kind
       ELSE /\ pc' = "prefetch"
            /\ kind' = "groups"
            /\ UNCHANGED <<apiLog, failures>>
    /\ UNCHANGED <<run, env, pluginState, restoreState, remote, prefixes, maps,
                   preExisting, allObjectTypeNames, todo, nextId, reconcilerRan, cmdLog,
                   errLog, snap>>

\* the first list call of a block and the choice of what to create
\* (lines 736-740, 791-801, 819-823, 841-845, 865-869, 889-893); an
\* exception ends the block at its handler
Prefetch ==
    /\ pc = "prefetch"
    /\ \E types \in (IF kind = "permissions" THEN ApiOutcomes({"Exception"}) ELSE {"none"}) :
        IF types = "Exception"
        THEN /\ apiLog' = Append(apiLog, Call("list", "objectTypes", "", {}, FALSE))
             /\ failures' = failures + Charged(types)
             /\ todo' = <<>>
             /\ pc' = PcAfterException(kind)
             /\ kind' = KindAfter(kind)
             /\ UNCHANGED <<preExisting, allObjectTypeNames>>
        ELSE \E out \in ApiOutcomes({"Exception"}) :
             /\ apiLog' = apiLog
                    \o (IF types = "ok"
                        THEN <<Call("list", "objectTypes", "", {}, TRUE)>> ELSE <<>>)
                    \o <<Call("list", kind, "", {}, out = "ok")>>
             /\ allObjectTypeNames' = IF types = "ok" THEN objectTypes ELSE allObjectTypeNames
             /\ failures' = failures + Charged(out)
             /\ IF out = "ok"
                THEN /\ preExisting' = [preExisting EXCEPT ![kind] = DictByName(remote[kind])]
                     /\ todo' = Absent(Desired(kind), preExisting'[kind])
                     /\ pc' = "create"
                     /\ kind' = kind
                ELSE /\ todo' = <<>>
                     /\ pc' = PcAfterException(kind)
                     /\ kind' = KindAfter(kind)
                     /\ UNCHANGED preExisting
    /\ UNCHANGED <<run, env, pluginState, restoreState, remote, prefixes, maps,
                   nextId, reconcilerRan, cmdLog,
                   errLog, snap>>

\* whether building the payload of the create call raises: groups[x] of
\* line 802 raises KeyError for a group that is not in the dict; sorted() of
\* line 43 compares the records of a dict of two or more, which raises
\* TypeError unless the client's records are ordered
PayloadRaises ==
    CASE kind = "permissions" ->
            {PermissionGroup(Head(todo)) \notin Keys(maps.groups)}
      [] kind = "deviceTypes" ->
            {SortCompares(maps.manufacturers) /\ ~recordsOrdered}
      [] OTHER -> {FALSE}

\* the ids the payload may refer to (lines 802, 871-876)
PayloadRefs ==
    CASE kind = "permissions" ->
            {{g.id : g \in {r \in maps.groups : r.name = PermissionGroup(Head(todo))}}}
      [] kind = "deviceTypes" -> MinValueChoices(maps.manufacturers)
      [] OTHER -> {{}}

\* the 'object_types' of the payload (lines 803-805)
PayloadObjectTypes ==
    IF kind = "permissions"
    THEN object_types(allObjectTypeNames, exclude_objects(Head(todo)))
    ELSE {}

\* one turn of a creation loop (lines 740-744, 797-810, 823-832, 845-856,
\* 869-880, 893-902): RequestError is caught inside the loop, any other
\* exception ends the block at its handler
CreateResource ==
    /\ pc = "create"
    /\ todo # <<>>
    /\ \E raises \in PayloadRaises :
        IF raises
        THEN /\ todo' = <<>>
             /\ pc' = PcAfterException(kind)
             /\ kind' = KindAfter(kind)
             /\ UNCHANGED <<remote, nextId, apiLog, failures>>
        ELSE \E ref \in PayloadRefs, out \in ApiOutcomes({"RequestError", "Exception"}) :
             /\ apiLog' = Append(apiLog,
                    [Call("create", kind, Head(todo), ref, out = "ok")
                        EXCEPT !.object_types = PayloadObjectTypes,
                               !.error = IF out = "ok" THEN "" ELSE out])
             /\ failures' = failures + Charged(out)
             /\ remote' = IF out = "ok"
                          THEN [remote EXCEPT ![kind] =
                                   @ \cup {[id |-> nextId, name |-> Head(todo), ref |-> ref]}]
                          ELSE remote
             /\ nextId' = IF out = "ok" THEN nextId + 1 ELSE nextId
             /\ todo' = TodoAfter(out, todo)
             /\ pc' = IF out = "Exception" THEN PcAfterException(kind) ELSE "create"
             /\ kind' = IF out = "Exception" THEN KindAfter(kind) ELSE kind
    /\ UNCHANGED <<run, env, pluginState, restoreState, prefixes, maps, preExisting,
                   allObjectTypeNames, reconcilerRan, cmdLog,
                   errLog, snap>>

\* the list call after the loop (lines 746, 812, 834, 858, 882, 904)
Refetch ==
    /\ pc = "create"
    /\ todo = <<>>
    /\ \E out \in ApiOutcomes({"Exception"}) :
        /\ apiLog' = Append(apiLog, Call("list", kind, "", {}, out = "ok"))
        /\ failures' = failures + Charged(out)
        /\ maps' = IF out = "ok" THEN [maps EXCEPT ![kind] = DictByName(remote[kind])]
                   ELSE maps
        /\ pc' = IF out = "ok" THEN PcAfter(kind) ELSE PcAfterException(kind)
    /\ kind' = KindAfter(kind)
    /\ UNCHANGED <<run, env, pluginState, restoreState, remote, prefixes, preExisting,
                   allObjectTypeNames, todo, nextId, reconcilerRan, cmdLog,
                   errLog, snap>>

\* the prefixes in the order the API lists them
ById(S) == CHOOSE s \in Orderings(S) : \A i, j \in 1..Len(s) : i < j => s[i].id < s[j].id

\* str(prefix.vrf), line 915: the name of the VRF the prefix refers to
StrVrf(x) == VrfNames[x.vrf_id]

\* the comprehension of line 911 without the filter of its call
PrefixesToBackfill_AnyDescription == {x \in prefixes : x.vrf_id # NoVrf}

\* [x for x in nb.ipam.prefixes.filter(description__empty=True) if x.vrf]
PrefixesToBackfill == {x \in prefixes : x.description = "" /\ x.vrf_id # NoVrf}

\* lines 909-920: the first n updates succeed; an exception of the filter
\* call or of an update ends the block
BackfillPrefixes ==
    /\ pc = "prefixes"
    /\ LET targets == ById(PrefixesToBackfill)
       IN  \E out \in ApiOutcomes({"Exception"}), n \in 0..Len(targets) :
            /\ out = "ok" => n = Len(targets)
            /\ drained => n = 0
            /\ apiLog' = apiLog
                    \o [i \in 1..n |-> Call("update", "prefixes", StrVrf(targets[i]), {}, TRUE)]
            /\ prefixes' = {IF \E i \in 1..n : targets[i] = x
                            THEN [x EXCEPT !.description = StrVrf(x)] ELSE x : x \in prefixes}
            /\ failures' = failures + Charged(out)
    /\ pc' = "initializers"
    /\ UNCHANGED <<run, env, pluginState, restoreState, remote, maps, preExisting,
                   allObjectTypeNames, kind, todo, nextId, reconcilerRan, cmdLog,
                   errLog, snap>>

-----------------------------------------------------------------------------
(* The end of main, lines 922-970 *)

\* line 926 turned into a test that skips the data set after a restore
InitializersRunnable_UnlessRestored == fs.venvPy /\ fs.preloadDir /\ ~preloadDatabaseSuccess

\* line 926: the interpreter, the manage script and the directory exist
InitializersRunnable == fs.venvPy /\ fs.preloadDir

\* lines 922-948: "raise" is an exception of pushd or of the copy
LoadInitializers ==
    /\ pc = "initializers"
    /\ IF InitializersRunnable
       THEN \E out \in Outcomes({"raise", "err"}) :
                Ran(IF out = "raise" THEN <<>> ELSE <<"load_initializer_data">>, out # "ok")
       ELSE UNCHANGED <<cmdLog, failures, errLog>>
    /\ pc' = "import"
    /\ UNCHANGED <<run, env, pluginState, restoreState, apiState, snap>>

\* lines 950-970
ImportLibrary ==
    /\ pc = "import"
    /\ IF PopulateViaApi(preloadDatabaseSuccess, args.preloadBackupFile) /\ fs.libraryDir
       THEN \E out \in Outcomes({"raise", "err"}) :
                Ran(IF out = "raise" THEN <<>> ELSE <<"nb-dt-import.py">>, out # "ok")
       ELSE UNCHANGED <<cmdLog, failures, errLog>>
    /\ pc' = "done"
    /\ UNCHANGED <<run, env, pluginState, restoreState, apiState, snap>>

-----------------------------------------------------------------------------
(* The program is run again on what the last run left: plugins.py, the      *)
(* database and the resources of the API stay, the locals of main start     *)
(* afresh.  snap keeps what each finished run read and left.                *)

Snapshot ==
    [pluginsFile |-> pluginsFile, pluginNames |-> Range(pluginNames),
     remote |-> remote, apiLog |-> apiLog, failures |-> failures,
     reconcilerRan |-> reconcilerRan]

Rerun ==
    /\ pc = "done"
    /\ run < MaxRuns
    /\ snap' = Append(snap, Snapshot)
    /\ run' = run + 1
    /\ pc' = "plugins"
    /\ packagesInstalled' = NoPackages
    /\ dirsTodo' = <<>>
    /\ installedOrUpdatedPlugins' = <<>>
    /\ installLog' = <<>>
    /\ pluginNames' = <<>>
    /\ code' = <<>>
    /\ pluginsListFound' = FALSE
    /\ g_pluginsListFound' = FALSE
    /\ preloadDatabaseFile' = NoFile
    /\ preloadDatabaseSuccess' = FALSE
    /\ maps' = EmptyMaps
    /\ preExisting' = EmptyMaps
    /\ allObjectTypeNames' = {}
    /\ kind' = ""
    /\ todo' = <<>>
    /\ apiLog' = <<>>
    /\ cmdLog' = <<>>
    /\ errLog' = <<>>
    /\ reconcilerRan' = FALSE
    /\ UNCHANGED <<env, pluginsFile, drained, remote, prefixes, nextId, failures>>

-----------------------------------------------------------------------------
(* Initial states *)

\* the defaults of the command line, lines 224-270 and 322
DefaultArgs ==
    [preloadBackupFile |-> NoFile, wait |-> TRUE,
     staffGroupName |-> "administrator", defaultGroupName |-> "standard",
     manufacturers |-> <<"Unspecified">>, roles |-> <<"Unspecified">>,
     deviceTypes |-> <<"Unspecified">>, netboxSites |-> <<"default">>]

\* nothing but the netbox installation exists
BareFs ==
    [customPluginsDir |-> FALSE, pluginsPy |-> TRUE, preloadBackupFile |-> FALSE,
     preloadDir |-> FALSE, explicitMedia |-> FALSE, mediaPath |-> TRUE,
     venvPy |-> TRUE, libraryDir |-> FALSE]

Resource(id, name, ref) == [id |-> id, name |-> name, ref |-> ref]

RemoteEmpty == [k \in Kinds |-> {}]

RemoteSeeded ==
    [k \in Kinds |->
        CASE k = "groups" -> {Resource(1, "administrator", {})}
          [] k = "manufacturers" -> {Resource(2, "Zyxel", {}), Resource(3, "Acme", {})}
          [] k = "deviceTypes" -> {Resource(4, "Unspecified", {2})}
          [] OTHER -> {}]

SomePrefixes ==
    {[id |-> 1, description |-> "", vrf_id |-> 1],
     [id |-> 2, description |-> "lab", vrf_id |-> 1],
     [id |-> 3, description |-> "", vrf_id |-> NoVrf]}

\* the prefix tables tried: every table of up to MaxPrefixes rows, with and
\* without a description, with and without a VRF
PrefixTables ==
    LET Rows == [id : 1..MaxPrefixes, description : {"", "lab"},
                 vrf_id : {NoVrf} \cup (1..Len(VrfNames))]
    IN  UNION {{{f[i] : i \in I} : f \in {g \in [I -> Rows] : \A i \in I : g[i].id = i}} :
                  I \in SUBSET (1..MaxPrefixes)}

\* object types of the API: one set holds two types of the exclusion list,
\* the other holds none
SomeObjectTypes == {"dcim.device", "auth.group", "users.token"}
OtherObjectTypes == {"dcim.device", "dcim.site"}

IdsOf(r) == UNION {{x.id : x \in r[k]} : k \in Kinds}

FirstFreeId(r) == IF IdsOf(r) = {} THEN 1 ELSE 1 + CHOOSE m \in IdsOf(r) : \A i \in IdsOf(r) : i <= m

\* main() is about to start
InitLocals ==
    /\ pc = "plugins"
    /\ run = 1
    /\ packagesInstalled = NoPackages
    /\ dirsTodo = <<>>
    /\ installedOrUpdatedPlugins = <<>>
    /\ installLog = <<>>
    /\ pluginNames = <<>>
    /\ code = <<>>
    /\ pluginsListFound = FALSE
    /\ g_pluginsListFound = FALSE
    /\ preloadDatabaseFile = NoFile
    /\ preloadDatabaseSuccess = FALSE
    /\ drained = FALSE
    /\ maps = EmptyMaps
    /\ preExisting = EmptyMaps
    /\ allObjectTypeNames = {}
    /\ kind = ""
    /\ todo = <<>>
    /\ apiLog = <<>>
    /\ cmdLog = <<>>
    /\ failures = 0
    /\ errLog = <<>>
    /\ reconcilerRan = FALSE
    /\ snap = <<>>

\* the lines a plugins.py is made of here: a comment, an expression
\* statement, a list bound to another name, PLUGINS bound to a list, PLUGINS
\* bound to something that is no list literal
FileLines(elts, canon) ==
    {CommentLine,
     Line("expr", "", FALSE, <<>>, canon),
     Line("assign", "X", TRUE, elts, canon),
     Line("assign", "PLUGINS", TRUE, elts, canon),
     Line("assign", "PLUGINS", FALSE, <<>>, canon)}

PluginsFiles ==
    {<<BadLine>>} \cup
    UNION {BoundedSeq(FileLines(elts, canon), MaxFileLen) :
              elts \in BoundedSeq(PluginNameSet, MaxListLen), canon \in BOOLEAN}

\* the preload directories: two dumps, the media archive of the first, and a
\* directory whose name ends in .gz
Entry(stem, ext, mtime, regular) ==
    [stem |-> stem, ext |-> ext, mtime |-> mtime, isfile |-> regular]

Directories ==
    {a \cup b \cup m \cup d :
        a \in {{}} \cup {{Entry("a", ".gz", t, TRUE)} : t \in 1..MaxMtime},
        b \in {{}} \cup {{Entry("b", ".gz", t, TRUE)} : t \in 1..MaxMtime},
        m \in {{}, {Entry("a", ".media.tar.gz", 1, TRUE)}},
        d \in {{}, {Entry("d", ".gz", 1, FALSE)}}}

\* foo 1.9 is installed
OneInstalled == [n \in PackageNames |-> IF n = "foo" THEN <<1, 9>> ELSE NoVersion]

\* the dry run would install foo 1.10
OneNewer == [n \in PackageNames |-> IF n = "foo" THEN <<1, 10>> ELSE NoVersion]

\* what pip lists: foo in any release or not at all, bar in release 1 or not
\* at all
PipLists == {m \in PackageMaps : m["bar"] \in {NoVersion, <<1>>}}

\* the reports of a dry run: foo in any release or not at all, bar in
\* release 1.0 or not at all
Reports == {m \in PackageMaps : m["bar"] \in {NoVersion, <<1, 0>>}}

\* a subdirectory of the custom plugins directory, or of its 'requirements'
\* subdirectory, with what its dry run leaves
PackageDir(dependency, dryRun) == [dependency |-> dependency, dryRun |-> dryRun]

\* the dry runs: a report, a failing run with or without a report file, and
\* a run that leaves no report file
DryRuns ==
    {DryRun(0, TRUE, install) : install \in Reports}
        \cup {DryRun(1, TRUE, NoPackages), DryRun(1, FALSE, NoPackages),
              DryRun(0, FALSE, NoPackages)}

\* the directories in the order main handles them: the requirements first
PackageDirLists ==
    {dirs \in BoundedSeq({PackageDir(d, r) : d \in BOOLEAN, r \in DryRuns}, MaxPackageDirs) :
        \A i, j \in 1..Len(dirs) : (i < j /\ dirs[j].dependency) => dirs[i].dependency}

-----------------------------------------------------------------------------
(* The whole program, one run *)

Init ==
    /\ InitLocals
    /\ args \in {[DefaultArgs EXCEPT !.preloadBackupFile = f, !.wait = w] :
                     f \in {NoFile, ExplicitFile}, w \in BOOLEAN}
    /\ fs \in {[BareFs EXCEPT !.customPluginsDir = c, !.preloadBackupFile = x,
                              !.preloadDir = p, !.explicitMedia = x, !.libraryDir = p,
                              !.mediaPath = m] :
                    c \in BOOLEAN, x \in BOOLEAN, p \in BOOLEAN, m \in BOOLEAN}
    /\ fs.preloadBackupFile => args.preloadBackupFile = ExplicitFile
    /\ preloadDir \in IF fs.preloadDir THEN Directories ELSE {{}}
    /\ venv = OneInstalled
    /\ packageDirs = <<PackageDir(FALSE, DryRun(0, TRUE, OneNewer))>>
    /\ pluginsFile = <<CommentLine, Line("assign", "PLUGINS", TRUE, <<"existing_plugin">>, FALSE)>>
    /\ pluginInits = <<"new_plugin">>
    /\ recordsOrdered = FALSE
    /\ objectTypes = SomeObjectTypes
    /\ mayFail = TRUE
    /\ remote = RemoteEmpty
    /\ prefixes = SomePrefixes
    /\ nextId = FirstFreeId(remote)

Next ==
    \/ CheckPluginDirs
    \/ InstallPackageDir
    \/ AfterInstall
    \/ DiscoverPlugins
    \/ RegisterPlugins
    \/ SelectBackup
    \/ RestoreStop
    \/ RestoreDropdb
    \/ RestoreCreatedb
    \/ RestoreGrant
    \/ RestoreLoad
    \/ RestoreFixup
    \/ RestoreTruncate
    \/ RestoreStart
    \/ RestoreMigrate
    \/ RestoreSuperuser
    \/ RestoreMedia
    \/ Gate
    \/ WaitConnection
    \/ Prefetch
    \/ CreateResource
    \/ Refetch
    \/ BackfillPrefixes
    \/ LoadInitializers
    \/ ImportLibrary

Spec == Init /\ [][Next]_vars

-----------------------------------------------------------------------------
(* The registration of the plugins, on every plugins.py, run after run: a   *)
(* backup is asked for that does not exist, so main skips the restore and   *)
(* the reconciler, and no command fails.                                    *)

InitReg ==
    /\ InitLocals
    /\ args = [DefaultArgs EXCEPT !.preloadBackupFile = ExplicitFile]
    /\ fs = [BareFs EXCEPT !.customPluginsDir = TRUE]
    /\ preloadDir = {}
    /\ venv = OneInstalled
    /\ packageDirs = <<>>
    /\ pluginsFile \in PluginsFiles
    /\ pluginInits \in BoundedSeq(PluginNameSet, MaxDiscovered)
    /\ recordsOrdered = FALSE
    /\ objectTypes = SomeObjectTypes
    /\ mayFail = FALSE
    /\ remote = RemoteEmpty
    /\ prefixes = {}
    /\ nextId = 1

NextReg ==
    \/ CheckPluginDirs
    \/ AfterInstall
    \/ DiscoverPlugins
    \/ RegisterPlugins
    \/ SelectBackup
    \/ Gate
    \/ LoadInitializers
    \/ ImportLibrary
    \/ Rerun

SpecReg == InitReg /\ [][NextReg]_vars

-----------------------------------------------------------------------------
(* The installation of the packages, on every dry run and every set of      *)
(* installed packages; a backup is asked for that does not exist.           *)

InitInst ==
    /\ InitLocals
    /\ args = [DefaultArgs EXCEPT !.preloadBackupFile = ExplicitFile]
    /\ fs = [BareFs EXCEPT !.customPluginsDir = TRUE]
    /\ preloadDir = {}
    /\ venv \in PipLists
    /\ packageDirs \in PackageDirLists
    /\ pluginsFile = <<Line("assign", "PLUGINS", TRUE, <<"existing_plugin">>, TRUE)>>
    /\ pluginInits \in {<<>>, <<"existing_plugin">>}
    /\ recordsOrdered = FALSE
    /\ objectTypes = SomeObjectTypes
    /\ mayFail = TRUE
    /\ remote = RemoteEmpty
    /\ prefixes = {}
    /\ nextId = 1

NextInst ==
    \/ CheckPluginDirs
    \/ InstallPackageDir
    \/ AfterInstall
    \/ DiscoverPlugins
    \/ RegisterPlugins
    \/ SelectBackup
    \/ Gate
    \/ LoadInitializers
    \/ ImportLibrary

SpecInst == InitInst /\ [][NextInst]_vars

-----------------------------------------------------------------------------
(* The reconciler, run after run: no plugin directory and no backup *)

\* the desired names tried: the defaults, no manufacturer, two manufacturers
\* and two device types, a site given twice with one group name for both groups
RecArgs ==
    {DefaultArgs,
     [DefaultArgs EXCEPT !.manufacturers = <<>>],
     [DefaultArgs EXCEPT !.manufacturers = <<"Unspecified", "Acme">>,
                         !.deviceTypes = <<"Unspecified", "Generic">>],
     [DefaultArgs EXCEPT !.netboxSites = <<"default", "default">>,
                         !.defaultGroupName = "administrator"]}

InitRec ==
    /\ InitLocals
    /\ args \in RecArgs
    /\ fs = BareFs
    /\ preloadDir = {}
    /\ venv = NoPackages
    /\ packageDirs = <<>>
    /\ pluginsFile = <<>>
    /\ pluginInits = <<>>
    /\ recordsOrdered \in BOOLEAN
    /\ objectTypes = SomeObjectTypes
    /\ mayFail = TRUE
    /\ remote \in {RemoteEmpty, RemoteSeeded}
    /\ prefixes = SomePrefixes
    /\ nextId = FirstFreeId(remote)

NextRec ==
    \/ CheckPluginDirs
    \/ SelectBackup
    \/ Gate
    \/ WaitConnection
    \/ Prefetch
    \/ CreateResource
    \/ Refetch
    \/ BackfillPrefixes
    \/ LoadInitializers
    \/ ImportLibrary
    \/ Rerun

SpecRec == InitRec /\ [][NextRec]_vars

-----------------------------------------------------------------------------
(* One run of the reconciler against every API tried: no plugin directory,  *)
(* an empty preload directory                                               *)

InitApi ==
    /\ InitLocals
    /\ args \in {[a EXCEPT !.wait = w] : a \in RecArgs, w \in BOOLEAN}
    /\ fs = [BareFs EXCEPT !.preloadDir = TRUE]
    /\ preloadDir = {}
    /\ venv = NoPackages
    /\ packageDirs = <<>>
    /\ pluginsFile = <<>>
    /\ pluginInits = <<>>
    /\ recordsOrdered \in BOOLEAN
    /\ objectTypes \in {SomeObjectTypes, OtherObjectTypes}
    /\ mayFail = TRUE
    /\ remote \in {RemoteEmpty, RemoteSeeded}
    /\ prefixes = SomePrefixes
    /\ nextId = FirstFreeId(remote)

NextApi ==
    \/ CheckPluginDirs
    \/ SelectBackup
    \/ Gate
    \/ WaitConnection
    \/ Prefetch
    \/ CreateResource
    \/ Refetch
    \/ BackfillPrefixes
    \/ LoadInitializers
    \/ ImportLibrary

SpecApi == InitApi /\ [][NextApi]_vars

-----------------------------------------------------------------------------
(* The two ways to fill in the descriptions of the prefixes, on every       *)
(* prefix table: with a backup in the preload directory the restore runs    *)
(* and the reconciler does not, without one the reconciler runs; no command *)
(* and no call fails.                                                       *)

InitFix ==
    /\ InitLocals
    /\ args = DefaultArgs
    /\ fs = [BareFs EXCEPT !.preloadDir = TRUE]
    /\ preloadDir \in {{}, {Entry("a", ".gz", 1, TRUE)}}
    /\ venv = NoPackages
    /\ packageDirs = <<>>
    /\ pluginsFile = <<>>
    /\ pluginInits = <<>>
    /\ recordsOrdered = FALSE
    /\ objectTypes = SomeObjectTypes
    /\ mayFail = FALSE
    /\ remote = RemoteEmpty
    /\ prefixes \in PrefixTables
    /\ nextId = FirstFreeId(remote)

NextFix ==
    \/ CheckPluginDirs
    \/ SelectBackup
    \/ RestoreStop
    \/ RestoreDropdb
    \/ RestoreCreatedb
    \/ RestoreGrant
    \/ RestoreLoad
    \/ RestoreFixup
    \/ RestoreTruncate
    \/ RestoreStart
    \/ RestoreMigrate
    \/ RestoreSuperuser
    \/ RestoreMedia
    \/ Gate
    \/ WaitConnection
    \/ Prefetch
    \/ CreateResource
    \/ Refetch
    \/ BackfillPrefixes
    \/ LoadInitializers
    \/ ImportLibrary

SpecFix == InitFix /\ [][NextFix]_vars

-----------------------------------------------------------------------------
(* Properties: the restore gate and the choice of the backup *)

\* the backup chosen is an entry of the preload directory
ChosenFromDir == preloadDatabaseFile \notin {NoFile, ExplicitFile}

\* the restore of the chosen backup was started
RestoreAttempted == \E i \in 1..Len(cmdLog) : cmdLog[i] = "stop"

\* main has passed line 700
PastGate == pc \in {"connect", "prefetch", "create", "prefixes", "initializers", "import", "done"}

\* C1 as stated: in every run in which a backup is discovered in the preload
\* directory, the reconciler does not run.
C1_Original == ChosenFromDir => ~reconcilerRan

\* C1 as amended: in every run in which a backup is discovered in the preload
\* directory and its load step succeeds, the reconciler does not run.
C1_Theorem == (ChosenFromDir /\ preloadDatabaseSuccess) => ~reconcilerRan

C1_Witness ==
    /\ pc = "done"
    /\ ChosenFromDir
    /\ args.preloadBackupFile = NoFile
    /\ preloadDatabaseSuccess
    /\ ~reconcilerRan

\* C2: in every run where no backup file was requested, if the restore was not
\* attempted or its load step did not succeed, the reconciler runs.
C2_Theorem ==
    (PastGate /\ args.preloadBackupFile = NoFile /\ ~preloadDatabaseSuccess) => reconcilerRan

C2_Witness ==
    /\ pc = "done"
    /\ args.preloadBackupFile = NoFile
    /\ RestoreAttempted
    /\ ~preloadDatabaseSuccess
    /\ reconcilerRan

\* C3: in every run where a backup file was requested, the reconciler never
\* runs, whether the restore succeeds, fails, or the file does not exist.
C3_Theorem == args.preloadBackupFile # NoFile => ~reconcilerRan

C3_Witness ==
    /\ pc = "done"
    /\ args.preloadBackupFile # NoFile
    /\ RestoreAttempted
    /\ ~preloadDatabaseSuccess
    /\ ~reconcilerRan

\* C4 as stated: a backup chosen from the preload directory has the greatest
\* modification time among the regular *.gz files of the directory that are
\* no media archives, and is never a media archive.
C4_Claim ==
    ChosenFromDir =>
        /\ ~EndsWithMedia(preloadDatabaseFile)
        /\ \A chosen \in {e \in preloadDir : Path(e) = preloadDatabaseFile} :
             \A e \in preloadFiles : e.mtime <= chosen.mtime

\* C5 as stated: in a run with an explicit path, no file other than that path
\* is ever restored.
C5_Original ==
    (args.preloadBackupFile # NoFile /\ RestoreAttempted)
        => preloadDatabaseFile = args.preloadBackupFile

\* C5 as amended: the preload directory is searched only when the explicit
\* path names no existing file; in a run whose explicit path is an existing
\* file, that file is the backup chosen and no other file is ever restored.
C5_Theorem ==
    (isfile(args.preloadBackupFile) /\ pc \notin {"plugins", "install", "discover", "register", "select", "crashed"})
        => preloadDatabaseFile = args.preloadBackupFile

C5_Witness ==
    /\ isfile(args.preloadBackupFile)
    /\ fs.preloadDir
    /\ preloadFiles # {}
    /\ RestoreAttempted
    /\ preloadDatabaseFile = args.preloadBackupFile

-----------------------------------------------------------------------------
(* Properties: the reconciler *)

Creates(log) == {i \in 1..Len(log) : log[i].op = "create"}

DeviceTypeCreates == {i \in Creates(apiLog) : apiLog[i].kind = "deviceTypes"}

\* C6: a second run of the reconciler on the API state the first run left,
\* every API call of both runs succeeding, issues no create call and leaves
\* the resources of every kind as they were after the first run.
C6_Theorem ==
    (run > 1 /\ failures = 0 /\ snap[1].reconcilerRan)
        => /\ Creates(apiLog) = {}
           /\ remote = snap[1].remote

C6_Witness ==
    /\ run = 2
    /\ pc = "done"
    /\ failures = 0
    /\ reconcilerRan
    /\ snap[1].reconcilerRan
    /\ Creates(snap[1].apiLog) # {}

\* C7 as stated: every device type create call refers to a manufacturer that
\* exists remotely at the time of the call; none is issued without a
\* manufacturer or before the manufacturers were reconciled.
C7_Original ==
    \A i \in DeviceTypeCreates : apiLog[i].ref # {} /\ apiLog[i].refOk

\* C7 as amended: every device type create call is issued after the
\* manufacturers block has listed the manufacturers, and the manufacturer it
\* names exists remotely at the time of the call; it names none exactly when
\* the manufacturers dict is empty.
C7_Theorem ==
    \A i \in DeviceTypeCreates :
        /\ apiLog[i].refOk
        /\ apiLog[i].ref = {} <=> maps.manufacturers = {}
        /\ \E j \in 1..(i - 1) : apiLog[j].kind = "manufacturers" /\ apiLog[j].op = "list"

C7_Witness ==
    \E i \in DeviceTypeCreates :
        /\ apiLog[i].ok
        /\ apiLog[i].ref # {}
        /\ \E j \in 1..(i - 1) :
              /\ apiLog[j].kind = "manufacturers"
              /\ apiLog[j].op = "create"
              /\ apiLog[j].ok

-----------------------------------------------------------------------------
(* Properties: the registration of the plugins *)

\* the registration step of this run has rewritten plugins.py
Registered ==
    pluginNames # <<>> /\ pc \notin {"plugins", "install", "discover", "register", "crashed"}

PluginsAssigns(text) == {i \in 1..Len(text) : IsPluginsAssign(text[i])}

\* how often the name stands in the PLUGINS lists of the text
Occurrences(text, name) ==
    Cardinality(UNION {{<<i, j>> : j \in {n \in 1..Len(text[i].elts) : text[i].elts[n] = name}} :
                          i \in {l \in PluginsAssigns(text) : text[l].isList}})

ListedNames(text) ==
    UNION {Range(text[i].elts) : i \in {l \in PluginsAssigns(text) : text[l].isList}}

\* the text binds PLUGINS once, to a list without repeated names
OnePluginsList(text) ==
    /\ Cardinality(PluginsAssigns(text)) = 1
    /\ \A i \in PluginsAssigns(text) :
          text[i].isList /\ \A name \in PluginNameSet : Count(text[i].elts, name) <= 1

\* C8 as stated: for a plugins.py with one PLUGINS list, the rewritten file
\* holds each name of that list and each discovered name exactly once.
C8_Claim ==
    (Registered /\ OnePluginsList(code))
        => \A name \in ListedNames(code) \cup Range(pluginNames) :
               Occurrences(pluginsFile, name) = 1

\* C9 as stated: a second registration with the same discovered names, on the
\* file the first one wrote, leaves that file as it is.
C9_Claim ==
    (run > 1 /\ Registered /\ Range(pluginNames) = snap[run - 1].pluginNames)
        => pluginsFile = snap[run - 1].pluginsFile

NotPluginsAssign(line) == ~IsPluginsAssign(line)

-----------------------------------------------------------------------------
(* Properties: the installation of the packages *)

\* a release as one number: 1.10 is 110, 1.9 is 109, 1 and 1.0 are 100
ReleaseNumber(v) == 100 * Segment(v, 1) + Segment(v, 2)

\* the dry run of this call left no report: it failed or wrote no file
NoReport(call) == call.dryRun.err # 0 \/ ~call.dryRun.isfile

\* a package of the report is not installed, or is installed in a lower release
ReportsNewOrHigher(call) ==
    \E n \in PackageNames :
        /\ call.dryRun.install[n] # NoVersion
        /\ \/ call.preinstalled[n] = NoVersion
           \/ ReleaseNumber(call.dryRun.install[n]) > ReleaseNumber(call.preinstalled[n])

\* C11: for a package directory the real installation is run if and only if
\* the dry run left no report, or a package of the report is missing from the
\* installed packages, or its version in the report is higher by version
\* precedence than the installed one.
C11_Theorem ==
    \A i \in 1..Len(installLog) :
        installLog[i].installed <=> (NoReport(installLog[i]) \/ ReportsNewOrHigher(installLog[i]))

C11_Witness ==
    \E i \in 1..Len(installLog) :
        /\ ~installLog[i].installed
        /\ installLog[i].dryRun.install["foo"] = <<1, 9>>
        /\ installLog[i].preinstalled["foo"] = <<1, 10>>
        /\ installLog[i].dryRun.install["bar"] = <<1, 0>>
        /\ installLog[i].preinstalled["bar"] = <<1>>

-----------------------------------------------------------------------------
(* Properties: the permissions *)

PermissionCreates == {i \in Creates(apiLog) : apiLog[i].kind = "permissions"}

\* C12: the object types sent in a create call of a permission are the
\* object types the API lists, without those of the exclusion list of that
\* permission.
C12_Theorem ==
    \A i \in PermissionCreates :
        apiLog[i].object_types = objectTypes \ exclude_objects(apiLog[i].key)

C12_Witness ==
    \E i \in PermissionCreates :
        /\ apiLog[i].key = "standard_permission"
        /\ objectTypes = {"dcim.device", "auth.group", "users.token"}
        /\ apiLog[i].object_types = {"dcim.device"}

-----------------------------------------------------------------------------
(* Properties: the restore *)

\* where the command stands in the commands run so far
Positions(cmd) == {i \in 1..Len(cmdLog) : cmdLog[i] = cmd}

\* main has passed the media step of the restore
PastMedia == RestoreAttempted /\ PastGate /\ Positions("superuser") # {}

\* C13: the media archive is extracted only if the archive and the media
\* directory both exist; when the archive is missing the step is skipped
\* without error; the empty subdirectories are removed before the extraction.
C13_Theorem ==
    /\ \A i \in Positions("extractall") :
          /\ isfile(mediaFileName(preloadDatabaseFile))
          /\ fs.mediaPath
          /\ i > 1 /\ cmdLog[i - 1] = "RemoveEmptyFolders"
    /\ ~isfile(mediaFileName(preloadDatabaseFile)) =>
          /\ Positions("RemoveEmptyFolders") = {}
          /\ \A i \in 1..Len(errLog) : errLog[i] # "media"

C13_Witness ==
    /\ PastMedia
    /\ ChosenFromDir
    /\ Positions("extractall") # {}
    /\ \A i \in 1..Len(errLog) : errLog[i] # "media"

-----------------------------------------------------------------------------
(* Properties: failures *)

\* C14 as stated: no failure ends the process early; here, main is never
\* left by an exception.
C14_Claim == pc # "crashed"

-----------------------------------------------------------------------------
(* Properties: what the reconciler does to the catalog *)

CatalogCalls == {i \in 1..Len(apiLog) : apiLog[i].kind \in Kinds}

\* the calls issued so far read, or create a desired name that the first
\* list call of its kind did not return
CreatesOnlyMissing ==
    /\ \A i \in CatalogCalls : apiLog[i].op \in {"probe", "list", "create"}
    /\ \A i \in Creates(apiLog) :
          /\ apiLog[i].kind \in Kinds
          /\ \E n \in 1..Len(Desired(apiLog[i].kind)) : Desired(apiLog[i].kind)[n] = apiLog[i].key
          /\ \A r \in preExisting[apiLog[i].kind] : r.name # apiLog[i].key

\* C15: for the catalog kinds the reconciler issues no update and no delete
\* call, it issues a create call only for a desired name that was absent from
\* the pre-fetch of its kind, and a resource that exists remotely is left as
\* it is.
C15_Theorem ==
    /\ []CreatesOnlyMissing
    /\ [][\A k \in Kinds : remote[k] \subseteq remote'[k]]_vars

C15_Witness ==
    /\ pc = "done"
    /\ preExisting.manufacturers # {}
    /\ preExisting.manufacturers \subseteq remote.manufacturers
    /\ \E i \in Creates(apiLog) : apiLog[i].kind = "manufacturers" /\ apiLog[i].ok
    /\ \E i \in Creates(apiLog) : apiLog[i].kind = "deviceTypes" /\ apiLog[i].ok
    /\ \E r \in preExisting.deviceTypes : r.name = "Unspecified"

-----------------------------------------------------------------------------
(* Properties: the failures of the restore *)

Failed(step) == \E i \in 1..Len(errLog) : errLog[i] = step

\* the commands of the restore steps that come after the load step
AfterLoadCommands ==
    {"fixup", "truncate", "start", "migrate --check", "superuser", "RemoveEmptyFolders",
     "extractall"} \cup Range(MigrateOperations)

\* the commands of the restore steps that come after the creation of the database
AfterCreatedbCommands == {"grant", "load"} \cup AfterLoadCommands

\* main is at line 698 or further
PastRestore == pc = "gate" \/ PastGate

LoadSucceeded == Positions("load") # {} /\ ~Failed("load")

\* C17: the restore is successful exactly when the load step has ended with
\* exit status 0 and a result; no failure of a later restore step resets the
\* flag, and the reconciler is not run afterwards.
C17_Theorem ==
    /\ preloadDatabaseSuccess <=> LoadSucceeded
    /\ LoadSucceeded => ~reconcilerRan

C17_Witness ==
    /\ pc = "done"
    /\ LoadSucceeded
    /\ args.preloadBackupFile = NoFile
    /\ Failed("migrations") \/ Failed("superuser")
    /\ Positions("RemoveEmptyFolders") = {}
    /\ preloadDatabaseSuccess
    /\ ~reconcilerRan

-----------------------------------------------------------------------------
(* Properties: the connection and the failures of the reconciler *)

Probes == {i \in 1..Len(apiLog) : apiLog[i].op = "probe"}

ListsAndCreates == {i \in 1..Len(apiLog) : apiLog[i].op \in {"list", "create"}}

\* C18: with waiting enabled no list or create call is issued before a probe
\* has succeeded; a failed probe is followed by another probe, and the loop
\* ends at the first success.
C18_Theorem ==
    args.wait =>
        /\ \A i \in ListsAndCreates : \E j \in Probes : j < i /\ apiLog[j].ok
        /\ \A i \in Probes :
              IF apiLog[i].ok
              THEN \A j \in Probes : j <= i
              ELSE IF i = Len(apiLog) THEN pc = "connect" ELSE apiLog[i + 1].op = "probe"

C18_Witness ==
    /\ args.wait
    /\ Len(apiLog) >= 3
    /\ apiLog[1].op = "probe" /\ ~apiLog[1].ok
    /\ apiLog[2].op = "probe" /\ apiLog[2].ok
    /\ apiLog[3].op = "list"

\* the block of the kind has issued its first call
BlockEntered(k) ==
    \E i \in ListsAndCreates :
        \/ apiLog[i].kind = k
        \/ k = "permissions" /\ apiLog[i].kind = "objectTypes"

\* main has left the blocks of the catalog kinds
PastCatalog == reconcilerRan /\ pc \in {"prefixes", "initializers", "import", "done"}

CreateCalls(k) ==
    LET OfKind(c) == c.op = "create" /\ c.kind = k
    IN  SelectSeq(apiLog, OfKind)

\* the list calls of the kind: the second one is the one after the loop
ListCalls(k) ==
    LET OfKind(c) == c.op = "list" /\ c.kind = k
    IN  SelectSeq(apiLog, OfKind)

\* a step in which a create call is answered with RequestError
RequestErrorStep ==
    /\ pc = "create"
    /\ Len(apiLog') = Len(apiLog) + 1
    /\ apiLog'[Len(apiLog')].error = "RequestError"

\* C20: a RequestError of the create call of one item does not keep the
\* create calls of the other absent items of the kind from being issued, and
\* the dict of the kind is built from a list call made after the loop.
C20_Theorem ==
    /\ [][RequestErrorStep => (pc' = "create" /\ kind' = kind /\ todo' = Tail(todo))]_vars
    /\ [](\A k \in Kinds :
            Len(ListCalls(k)) = 2 =>
                /\ [i \in 1..Len(CreateCalls(k)) |-> CreateCalls(k)[i].key]
                       = Absent(Desired(k), preExisting[k])
                /\ ListCalls(k)[2].ok => maps[k] = DictByName(remote[k])
                /\ ~ListCalls(k)[2].ok => maps[k] = {})

C20_Witness ==
    /\ Len(ListCalls("groups")) = 2
    /\ ListCalls("groups")[2].ok
    /\ Len(CreateCalls("groups")) = 2
    /\ CreateCalls("groups")[1].error = "RequestError"
    /\ CreateCalls("groups")[2].ok
    /\ {r.name : r \in maps.groups} = {CreateCalls("groups")[2].key}

-----------------------------------------------------------------------------
(* Properties: the manufacturer of a created device type *)

\* the order of the manufacturer names of the model as Python compares them
NameRank(name) ==
    CASE name = "Acme" -> 1
      [] name = "Unspecified" -> 2
      [] name = "Zyxel" -> 3
      [] OTHER -> 4

\* the id of the entry with the smallest key
SmallestKeyId(map) ==
    {r.id : r \in {q \in map : \A o \in map : NameRank(q.name) <= NameRank(o.name)}}

\* the device-type block was left from inside its loop before any create
\* call: the list call before the loop succeeded, a device type was absent,
\* and neither a create call nor the list call after the loop was made
LeftBeforeCreate ==
    /\ BlockEntered("sites")
    /\ Len(ListCalls("deviceTypes")) = 1
    /\ ListCalls("deviceTypes")[1].ok
    /\ CreateCalls("deviceTypes") = <<>>
    /\ Absent(Desired("deviceTypes"), preExisting.deviceTypes) # <<>>

\* C21 as stated: for every non-empty manufacturers map, also one of two
\* entries, a device type is created, and the manufacturer it refers to is
\* the entry with the smallest name.
C21_Claim ==
    maps.manufacturers # {} =>
        /\ \A i \in DeviceTypeCreates :
              apiLog[i].ref = SmallestKeyId(maps.manufacturers)
        /\ ~LeftBeforeCreate

-----------------------------------------------------------------------------
(* Properties: the PLUGINS assignments of the rewritten file *)

\* C22 as stated: the registration appends a PLUGINS assignment only to a
\* file that has none; a file that has PLUGINS assignments keeps that many,
\* so a file with one PLUGINS list is rewritten with exactly one.
C22_Claim ==
    Registered =>
        Cardinality(PluginsAssigns(pluginsFile))
            = (IF PluginsAssigns(code) = {} THEN 1 ELSE Cardinality(PluginsAssigns(code)))

\* the text has one PLUGINS assignment, and it is no list literal
PluginsNotAList(text) ==
    /\ Cardinality(PluginsAssigns(text)) = 1
    /\ \A i \in PluginsAssigns(text) : ~text[i].isList

\* C23 as stated: the registration step leaves the file as it is, and raises
\* nothing, when no plugin name was discovered or when the PLUGINS
\* assignment of the file is no list literal.
C23_Claim ==
    [][(pc = "register" /\ (pluginNames = <<>> \/ PluginsNotAList(pluginsFile)))
          => (pluginsFile' = pluginsFile /\ pc' # "crashed")]_vars

\* the statement that binds PLUGINS last when the text is run top to bottom
LastPluginsAssign(text) ==
    text[CHOOSE i \in PluginsAssigns(text) : \A j \in PluginsAssigns(text) : j <= i]

\* C29 as stated: the file with a PLUGINS list, once rewritten and run top to
\* bottom, binds PLUGINS to a list that holds every name of the original
\* list and every discovered name.
C29_Claim ==
    (Registered /\ PluginsAssigns(code) # {} /\ LastPluginsAssign(code).isList)
        => /\ LastPluginsAssign(pluginsFile).isList
           /\ Range(LastPluginsAssign(code).elts) \cup Range(pluginNames)
                 \subseteq Range(LastPluginsAssign(pluginsFile).elts)

-----------------------------------------------------------------------------
(* Properties: the create calls of one run *)

\* C30 as stated: one run of the reconciler issues at most one create call
\* for a name of a kind, also when the name is given twice.
C30_Claim ==
    \A i, j \in Creates(apiLog) :
        (apiLog[i].kind = apiLog[j].kind /\ apiLog[i].key = apiLog[j].key) => i = j

-----------------------------------------------------------------------------
(* Properties: the restart of the services *)

\* C28 as stated: once the restore has run the command that stops the
\* services, the command that starts them again is run before the restore
\* is left, also when the creation of the database or the load step fails.
C28_Claim ==
    (PastRestore /\ Positions("stop") # {}) => Positions("start") # {}

-----------------------------------------------------------------------------
(* Properties: the migrations after the load *)

\* the check of line 640 has reported pending migrations
Pending == Failed("migrate --check")

\* C26: the five operations are run if and only if the check reports pending
\* migrations; they are then run in the order migrate, trace_paths,
\* remove_stale_contenttypes, clearsessions, reindex, each whatever the ones
\* before it returned; and the superuser step is attempted afterwards whether
\* migrations were pending or not.
C26_Theorem ==
    /\ Pending \/ Range(cmdLog) \cap Range(MigrateOperations) # {}
          => Positions("migrate --check") # {}
    /\ \A c \in Positions("migrate --check") :
          /\ ~Pending => Range(cmdLog) \cap Range(MigrateOperations) = {}
          /\ Pending =>
                /\ Len(cmdLog) >= c + 5
                /\ SubSeq(cmdLog, c + 1, c + 5)
                      = <<"migrate", "trace_paths", "remove_stale_contenttypes",
                          "clearsessions", "reindex">>
          /\ pc # "superuser" =>
                \/ \E i \in Positions("superuser") : i = c + (IF Pending THEN 6 ELSE 1)
                \/ /\ Failed("superuser")
                   /\ Positions("superuser") = {}

C26_Witness ==
    /\ Pending
    /\ Failed("trace_paths")
    /\ Positions("reindex") # {}
    /\ Positions("superuser") # {}
    /\ pc = "done"

-----------------------------------------------------------------------------
(* Properties: the descriptions of the prefixes *)

\* the table with the description of every prefix that has none and refers
\* to a VRF set to the name of that VRF, and every other prefix as it is
Backfilled(rows) ==
    {IF x.description = "" /\ x.vrf_id # NoVrf
     THEN [x EXCEPT !.description = VrfNames[x.vrf_id]] ELSE x : x \in rows}

\* C27: the last pass of the reconciler, when no call fails, sets the
\* description of exactly the prefixes with an empty description and a VRF to
\* the name of that VRF and leaves every other prefix as it is; the fix-up
\* statement of the restore does the same to the same table; no other step
\* changes a prefix.
C27_Theorem ==
    /\ [][(pc = "prefixes" /\ failures' = failures /\ ~drained)
             => prefixes' = Backfilled(prefixes)]_vars
    /\ [][(pc = "fixup" /\ failures' = failures)
             => (prefixes' = Backfilled(prefixes) /\ prefixes' = FixupSql(prefixes))]_vars
    /\ [][pc \notin {"prefixes", "fixup"} => prefixes' = prefixes]_vars

C27_Witness ==
    /\ pc = "done"
    /\ reconcilerRan
    /\ \E i \in 1..Len(apiLog) : apiLog[i].op = "update" /\ apiLog[i].key = "vrf-b"
    /\ \E x, y \in prefixes :
          /\ x.description = "vrf-b" /\ x.vrf_id = 2
          /\ y.description = "" /\ y.vrf_id = NoVrf

-----------------------------------------------------------------------------
(* Properties: the end of main *)

\* the step has run its command, or has failed before it could
Attempted(cmd, step) == Positions(cmd) # {} \/ Failed(step)

-----------------------------------------------------------------------------
(* The whole program under the scheduling of a process: main is one thread  *)
(* that runs until it ends, so a step that can be taken is taken.  The      *)
(* preload directory holds one backup or none.                              *)

InitLive ==
    /\ Init
    /\ fs.customPluginsDir /\ fs.preloadDir /\ fs.mediaPath
    /\ fs.preloadBackupFile <=> args.preloadBackupFile = ExplicitFile
    /\ preloadDir \subseteq {Entry("a", ".gz", 1, TRUE)}

SpecLive == InitLive /\ [][Next]_vars /\ WF_vars(Next)

-----------------------------------------------------------------------------
(* Properties: termination *)

\* the process has ended: main has returned, or an exception has left it
Terminated == pc \in {"done", "crashed"}

\* main is in the loop of lines 720-727, probing services that the restore
\* stopped and did not start again
WaitingForStopped == pc = "connect" /\ args.wait /\ drained

\* C25: a run repeats without end only in the connectivity-wait loop: every
\* run with waiting disabled terminates, and every run with waiting enabled
\* terminates unless it waits for services that were left stopped, whose
\* probe never succeeds.
C25_Theorem == <>(Terminated \/ WaitingForStopped)

C25_Witness ==
    /\ pc = "done"
    /\ args.wait
    /\ Len(apiLog) >= 2
    /\ apiLog[1].op = "probe" /\ ~apiLog[1].ok
    /\ apiLog[2].op = "probe" /\ apiLog[2].ok

-----------------------------------------------------------------------------
(* Properties: a permission whose group is missing *)

\* the permissions that were absent when the block listed them
AbsentPermissions == Range(Absent(Desired("permissions"), preExisting.permissions))

\* the group of the permission is in the dict the groups block has left
GroupKnown(p) == \E g \in maps.groups : g.name = PermissionGroup(p)

\* C31 as stated: when the group of one absent permission is missing from
\* the groups dict, and no call of the permissions block fails, the create
\* call of every other absent permission is still issued and the permissions
\* dict is still built from a list call made after the loop.
C31_Claim ==
    (/\ BlockEntered("manufacturers")
     /\ Len(ListCalls("permissions")) >= 1
     /\ \A i \in 1..Len(apiLog) :
           apiLog[i].kind \in {"permissions", "objectTypes"} => apiLog[i].ok
     /\ \E p \in AbsentPermissions : ~GroupKnown(p))
        => /\ \A q \in AbsentPermissions :
                 GroupKnown(q) =>
                     \E i \in 1..Len(CreateCalls("permissions")) :
                         CreateCalls("permissions")[i].key = q
           /\ Len(ListCalls("permissions")) = 2
           /\ maps.permissions = DictByName(remote.permissions)

=============================================================================
